---- MODULE Spec2Model ----
(***************************************************************************)
(* Crossword player: grid engine (grid.js), solving engine (game.js),      *)
(* persistence (storage.js) and the session wiring of app.js, as a state   *)
(* machine.  Rows, columns and word ids are 0-based as in the source;      *)
(* TLA+ sequences are 1-based, so words[i] of the source is Words[i + 1].  *)
(***************************************************************************)
EXTENDS Integers, Sequences, FiniteSets, TLC

VARIABLES
  pz,         \* index in Puzzles of the puzzleData that initPuzzle loaded
  grid,       \* createGrid: activeRow, activeCol, activeDirection and, per
              \* cell, input.value and input.readOnly
  state,      \* createGame: the state object
  saveTimer,  \* createGame: the number of pending timeouts that scheduleSave set
  storage,    \* localStorage: progress of (Level, Date) and the statistics
  calls,      \* the callbacks createGame was given: how often each has run
  inst,       \* number of games initPuzzle has created since the page was opened
  zombies,    \* date and state object of the replaced games whose timeout is pending
  today,      \* the calendar day (UTC) as a day number
  timer,      \* createTimer: elapsed, running, started and the intervals set
  hidden,     \* document.hidden
  oldTimers,  \* the started timers of replaced sessions (nothing clears their
              \* interval or removes their visibilitychange listener)
  currentDate, \* app.js: the date of the puzzle on the page
  game,       \* app.js: whether the module-level game holds a game (is not null)
  effects,    \* what the last handler did outside the game, in order: the
              \* localStorage keys it wrote and the completion callback
  threw,      \* whether the last handler ended with an uncaught exception
  pending,    \* app.js: the dates of the initPuzzle calls that await loadPuzzle
  requested   \* app.js: the date of the last initPuzzle call

vars == <<pz, grid, state, saveTimer, storage, calls, inst, zombies, today,
          timer, hidden, oldTimers, currentDate, game, effects, threw,
          pending, requested>>

(* ------------------------------ bounds -------------------------------- *)
\* cap of state.hintsUsed (revealLetter can count one cell many times)
MaxHints == 4
\* number of game instances created for the one (level, date) in a session run
MaxInst == 3
\* debounce timeouts of abandoned games that are pending at one time
MaxZombies == 1
\* last calendar day of the statistics runs
MaxDay == 4
\* completions recorded in a statistics run
MaxCompleted == 3
\* columns of the generated puzzle definitions (they have two rows)
MaxCols == 2
\* seconds a timer counts in a run
MaxElapsed == 2
\* started timers of replaced sessions that are followed
MaxOldTimers == 2

(* --------------------------- puzzle source ---------------------------- *)
\* puzzle[r][c] === '#'
Black == -1
\* the "empty" marker of a playable cell without a clue number
Blank == 0
\* null word index of cellToWords, null result of findIndex
Null == -1

Level == "daily"
Date == "2026-02-15"
\* another date of the level
Date2 == "2026-02-16"

\* one-code-unit strings: "Ccedil" stands for U+00C7, "ccedil" for U+00E7
\* String.prototype.normalize('NFD'): the canonical decomposition
NFD(ch) ==
  CASE ch = "Ccedil" -> <<"C", "U0327">>
    [] ch = "ccedil" -> <<"c", "U0327">>
    [] OTHER -> <<ch>>

\* .replace(/[\u0300-\u036f]/g, ''): drop the combining marks
StripMarks(cps) == SelectSeq(cps, LAMBDA cp : cp \notin {"U0327"})

ToUpperCase1(cp) ==
  CASE cp = "a" -> "A"
    [] cp = "c" -> "C"
    [] cp = "ccedil" -> "Ccedil"
    [] OTHER -> cp

\* a sequence of code points back to a string (one base letter remains)
Join(cps) == IF cps = <<>> THEN "" ELSE ToUpperCase1(cps[1])

\* key.normalize('NFD').replace(/[\u0300-\u036f]/g, '').toUpperCase()
normalizeLetter(key) == Join(StripMarks(NFD(key)))

\* /[a-zA-Z\u00C0-\u00FF]/.test(e.key) with e.key.length === 1
isLetterKey(key) == key \in {"a", "A", "c", "C", "ccedil", "Ccedil"}

\* keys the user presses in the model
Keys == {"a", "ccedil"}

\* 2x2 grid, 1-Across and 1-Down crossing at (0,0), (1,1) black
PuzzleAC ==
  [rows |-> 2, cols |-> 2,
   puzzle |-> << <<1, Blank>>, <<Blank, Black>> >>,
   solution |-> << <<"A", "C">>, <<"C", "#">> >>,
   across |-> <<1>>, down |-> <<1>>]

\* 1x2 grid with the single word 1-Across
PuzzleOneWord ==
  [rows |-> 1, cols |-> 2,
   puzzle |-> << <<1, Blank>> >>,
   solution |-> << <<"A", "C">> >>,
   across |-> <<1>>, down |-> <<>>]

\* the same grid, the solution of (0,1) carries a diacritic
PuzzleCedilla ==
  [rows |-> 1, cols |-> 2,
   puzzle |-> << <<1, Blank>> >>,
   solution |-> << <<"A", "Ccedil">> >>,
   across |-> <<1>>, down |-> <<>>]

\* 1x1 grid: the one-letter word 1-Across
PuzzleOneCell ==
  [rows |-> 1, cols |-> 1,
   puzzle |-> << <<1>> >>,
   solution |-> << <<"A">> >>,
   across |-> <<1>>, down |-> <<>>]

\* 1x3 grid: the one-letter word 1-Across, a black cell, and a playable cell
\* that no clue reaches
PuzzleIsland ==
  [rows |-> 1, cols |-> 3,
   puzzle |-> << <<1, Black, Blank>> >>,
   solution |-> << <<"A", "#", "C">> >>,
   across |-> <<1>>, down |-> <<>>]

\* what a cell of a puzzle definition can hold: '#', the empty marker, a label
CellKinds == <<Black, Blank, 1, 2>>
\* the kinds of the cells of the first and of the second row of a generated
\* puzzle definition (the second row repeats label 1 and has no label 2)
RowKinds == <<CellKinds, SubSeq(CellKinds, 1, 3)>>
\* clue lists as the data gives them: in order, and out of order with a clue
\* number (3) that labels no cell
ClueLists == << <<1, 2>>, <<2, 3, 1>> >>
NClueLists == Len(ClueLists)
\* digit i of k in base b
digit(k, b, i) == (k \div (b ^ i)) % b
\* the number of rows of MaxCols cells of the kinds of row r
NRows(r) == Len(RowKinds[r]) ^ MaxCols

\* the k-th puzzle definition of two rows and MaxCols columns: every cell any
\* of the kinds of its row, one clue list Across and the other Down
GenPuzzle(k) ==
  LET code == <<k % NRows(1), (k \div NRows(1)) % NRows(2)>>
      combo == k \div (NRows(1) * NRows(2))
      kind(r, c) == RowKinds[r][digit(code[r], Len(RowKinds[r]), c - 1) + 1]
  IN [rows |-> 2, cols |-> MaxCols,
      puzzle |-> [r \in 1 .. 2 |-> [c \in 1 .. MaxCols |-> kind(r, c)]],
      solution |-> [r \in 1 .. 2 |-> [c \in 1 .. MaxCols |->
                      IF kind(r, c) = Black THEN "#" ELSE "A"]],
      across |-> ClueLists[combo + 1],
      down |-> ClueLists[NClueLists - combo]]
NGen == NRows(1) * NRows(2) * NClueLists

HandPuzzles == <<PuzzleAC, PuzzleOneWord, PuzzleCedilla, PuzzleOneCell, PuzzleIsland>>
Puzzles == HandPuzzles \o [k \in 1 .. NGen |-> GenPuzzle(k - 1)]
\* the indexes of the generated puzzle definitions
GenIds == Len(HandPuzzles) + 1 .. Len(Puzzles)

P == Puzzles[pz]

Coords(p) == (0 .. p.rows - 1) \X (0 .. p.cols - 1)
puzzleAt(p, r, c) == p.puzzle[r + 1][c + 1]
solutionAt(p, r, c) == p.solution[r + 1][c + 1]

(* ---------------------- grid.js: buildWords --------------------------- *)
isPlayable(p, r, c) ==
  IF r < 0 \/ r >= p.rows \/ c < 0 \/ c >= p.cols THEN FALSE
  ELSE puzzleAt(p, r, c) # Black

\* numberToPos[val]: the last cell in row-major order labelled val
labelled(p, num) == {rc \in Coords(p) : puzzleAt(p, rc[1], rc[2]) = num}
hasPos(p, num) == num > 0 /\ labelled(p, num) # {}
numberToPos(p, num) ==
  CHOOSE rc \in labelled(p, num) :
    \A o \in labelled(p, num) : o[1] * p.cols + o[2] <= rc[1] * p.cols + rc[2]

\* a walk that stops after the labelled cell
walkOne(p, r, c, dr, dc) ==
  IF isPlayable(p, r, c) THEN <<[row |-> r, col |-> c]>> ELSE <<>>

\* the while (isPlayable(...)) walk from (r, c) by (dr, dc)
RECURSIVE walk(_, _, _, _, _)
walk(p, r, c, dr, dc) ==
  IF isPlayable(p, r, c)
  THEN <<[row |-> r, col |-> c]>> \o walk(p, r + dr, c + dc, dr, dc)
  ELSE <<>>

\* addClues that gives a clue without a labelled cell a word without cells
RECURSIVE addCluesNoSkip(_, _, _, _)
addCluesNoSkip(p, clues, direction, ws) ==
  IF clues = <<>> THEN ws
  ELSE LET num == Head(clues)
           wordCells == IF ~hasPos(p, num) THEN <<>>
                        ELSE IF direction = "across"
                        THEN walk(p, numberToPos(p, num)[1], numberToPos(p, num)[2], 0, 1)
                        ELSE walk(p, numberToPos(p, num)[1], numberToPos(p, num)[2], 1, 0)
           word == [id |-> Len(ws), number |-> num,
                    direction |-> direction, cells |-> wordCells]
       IN addCluesNoSkip(p, Tail(clues), direction, Append(ws, word))

RECURSIVE addClues(_, _, _, _)
addClues(p, clues, direction, ws) ==
  IF clues = <<>> THEN ws
  ELSE LET num == Head(clues) IN
       IF ~hasPos(p, num) THEN addClues(p, Tail(clues), direction, ws)
       ELSE LET pos == numberToPos(p, num)
                wordCells == IF direction = "across"
                             THEN walk(p, pos[1], pos[2], 0, 1)
                             ELSE walk(p, pos[1], pos[2], 1, 0)
                word == [id |-> Len(ws), number |-> num,
                         direction |-> direction, cells |-> wordCells]
            IN addClues(p, Tail(clues), direction, Append(ws, word))

\* grid.words after buildWords()
buildWords(p) == addClues(p, p.down, "down", addClues(p, p.across, "across", <<>>))

hasCell(word, r, c) == \E i \in 1 .. Len(word.cells) :
                          word.cells[i].row = r /\ word.cells[i].col = c

\* an index that holds the first word through the cell, not the last
buildCellToWordsFirst(p, ws, r, c, direction) ==
  LET ids == {i \in 1 .. Len(ws) :
                ws[i].direction = direction /\ hasCell(ws[i], r, c)}
  IN IF ids = {} \/ Cardinality(ids) > 1 THEN Null ELSE (CHOOSE i \in ids : TRUE) - 1

\* cellToWords[r][c][direction] after buildWords(): the last word of that
\* direction written there, Null when none was
buildCellToWords(p, ws, r, c, direction) ==
  LET ids == {i \in 1 .. Len(ws) :
                ws[i].direction = direction /\ hasCell(ws[i], r, c)}
  IN IF ids = {} THEN Null ELSE (CHOOSE i \in ids : \A j \in ids : j <= i) - 1

\* the tables of every puzzle of the model, built once
wordsTable == [i \in 1 .. Len(Puzzles) |-> buildWords(Puzzles[i])]
cellToWordsTable ==
  [i \in 1 .. Len(Puzzles) |->
     [rc \in Coords(Puzzles[i]) |->
        [d \in {"across", "down"} |->
           buildCellToWords(Puzzles[i], wordsTable[i], rc[1], rc[2], d)]]]

Words == wordsTable[pz]
NWords == Len(Words)
wordAt(idx) == Words[idx + 1]
cellToWords(r, c, direction) == cellToWordsTable[pz][<<r, c>>][direction]

inGrid(r, c) == r >= 0 /\ r < P.rows /\ c >= 0 /\ c < P.cols
isBlack(r, c) == puzzleAt(P, r, c) = Black
(* ------------------------- grid.js: the grid --------------------------- *)
\* the mutable parts of the program, passed through the handlers
World == [grid |-> grid, state |-> state, saveTimer |-> saveTimer,
          storage |-> storage, calls |-> calls, timer |-> timer, game |-> game,
          date |-> currentDate, effects |-> <<>>, thrown |-> FALSE]

\* Body applied to the value of v, v evaluated once (a JavaScript statement
\* sequence: each statement works on the result of the one before)
Let(v, Body(_)) == CHOOSE r \in {Body(b) : b \in {v}} : TRUE

\* the statements after a call: skipped when the call threw
Then(v, Body(_)) == CHOOSE r \in {IF b.thrown THEN b ELSE Body(b) : b \in {v}} : TRUE

otherDirection(d) == IF d = "across" THEN "down" ELSE "across"

setLetter(w, row, col, letter) ==
  IF ~inGrid(row, col) \/ isBlack(row, col) THEN w
  ELSE [w EXCEPT !.grid.value[<<row, col>>] = letter]

getLetter(w, row, col) ==
  IF inGrid(row, col) THEN w.grid.value[<<row, col>>] ELSE ""

lockCell(w, row, col) ==
  IF inGrid(row, col) /\ ~isBlack(row, col)
  THEN [w EXCEPT !.grid.readOnly[<<row, col>>] = TRUE]
  ELSE w

\* cell.input?.readOnly
isReadOnly(w, row, col) ==
  inGrid(row, col) /\ ~isBlack(row, col) /\ w.grid.readOnly[<<row, col>>]

\* setActiveCell without the switch to the cell's only direction
setActiveCellNoFlip(w0, row, col, dir) ==
  Let(w0, LAMBDA w :
    [w EXCEPT !.grid.activeDirection = IF dir # "" THEN dir ELSE @,
              !.grid.activeRow = row, !.grid.activeCol = col])

\* dir = "" stands for the omitted argument
setActiveCell(w0, row, col, dir) ==
  Let(w0, LAMBDA w :
    LET d1 == IF dir # "" THEN dir ELSE w.grid.activeDirection
        d2 == IF inGrid(row, col) /\ cellToWords(row, col, d1) = Null
              THEN otherDirection(d1) ELSE d1
    IN [w EXCEPT !.grid.activeDirection = d2,
                 !.grid.activeRow = row, !.grid.activeCol = col])

\* the index of the active word, Null for none
getActiveWord(w0) ==
  Let(w0, LAMBDA w :
    IF w.grid.activeRow < 0 \/ ~inGrid(w.grid.activeRow, w.grid.activeCol) THEN Null
    ELSE cellToWords(w.grid.activeRow, w.grid.activeCol, w.grid.activeDirection))

toggleDirection(w0) ==
  Let(w0, LAMBDA w :
    LET other == otherDirection(w.grid.activeDirection) IN
    IF inGrid(w.grid.activeRow, w.grid.activeCol)
       /\ cellToWords(w.grid.activeRow, w.grid.activeCol, other) # Null
    THEN setActiveCell([w EXCEPT !.grid.activeDirection = other],
                       w.grid.activeRow, w.grid.activeCol, "")
    ELSE w)

\* word.cells.findIndex(c => c.row === activeRow && c.col === activeCol), 0-based
findIndex(cells, r, c) ==
  LET hits == {i \in 1 .. Len(cells) : cells[i].row = r /\ cells[i].col = c}
  IN IF hits = {} THEN Null ELSE (CHOOSE i \in hits : \A j \in hits : i <= j) - 1

\* moveToNextCell that goes on to the first cell after the last
moveToNextCellWrap(w0) ==
  Let(w0, LAMBDA w :
    Let(getActiveWord(w), LAMBDA wi :
      IF wi = Null THEN w
      ELSE Let(wordAt(wi).cells, LAMBDA cells :
             Let(findIndex(cells, w.grid.activeRow, w.grid.activeCol), LAMBDA idx :
               IF idx < Len(cells) - 1
               THEN setActiveCell(w, cells[idx + 2].row, cells[idx + 2].col, "")
               ELSE setActiveCell(w, cells[1].row, cells[1].col, "")))))

moveToNextCell(w0) ==
  Let(w0, LAMBDA w :
    Let(getActiveWord(w), LAMBDA wi :
      IF wi = Null THEN w
      ELSE Let(wordAt(wi).cells, LAMBDA cells :
             Let(findIndex(cells, w.grid.activeRow, w.grid.activeCol), LAMBDA idx :
               IF idx < Len(cells) - 1
               THEN setActiveCell(w, cells[idx + 2].row, cells[idx + 2].col, "")
               ELSE w))))

moveToPrevCell(w0) ==
  Let(w0, LAMBDA w :
    Let(getActiveWord(w), LAMBDA wi :
      IF wi = Null THEN w
      ELSE Let(wordAt(wi).cells, LAMBDA cells :
             Let(findIndex(cells, w.grid.activeRow, w.grid.activeCol), LAMBDA idx :
               IF idx > 0
               THEN setActiveCell(w, cells[idx].row, cells[idx].col, "")
               ELSE w))))

\* word.cells.find(c => !cells[c.row][c.col].input?.value) || word.cells[0]
firstEmptyOrFirst(w, cells) ==
  LET empties == {i \in 1 .. Len(cells) : getLetter(w, cells[i].row, cells[i].col) = ""}
  IN IF empties = {} THEN cells[1]
     ELSE cells[CHOOSE i \in empties : \A j \in empties : i <= j]

\* setActiveCell(target.row, target.col, word.direction) of the first empty
\* cell of the word, or of its first cell
activateWord(w, word) ==
  Let(firstEmptyOrFirst(w, word.cells), LAMBDA target :
    setActiveCell(w, target.row, target.col, word.direction))

\* moveToNextWord that stays on the last (first) word instead of wrapping
moveToNextWordNoWrap(w0, reverse) ==
  Let(w0, LAMBDA w :
    Let(getActiveWord(w), LAMBDA currentWordIdx :
      IF currentWordIdx = Null THEN w
      ELSE LET sameDir == SelectSeq(Words, LAMBDA x : x.direction = w.grid.activeDirection)
               curPos == (CHOOSE i \in 1 .. Len(sameDir) :
                            sameDir[i].id = currentWordIdx) - 1
               nextPos == IF reverse
                          THEN (IF curPos > 0 THEN curPos - 1 ELSE curPos)
                          ELSE (IF curPos < Len(sameDir) - 1 THEN curPos + 1 ELSE curPos)
           IN Let(sameDir[nextPos + 1], LAMBDA nextWord :
                IF Len(nextWord.cells) > 0 THEN activateWord(w, nextWord) ELSE w)))

moveToNextWord(w0, reverse) ==
  Let(w0, LAMBDA w :
    Let(getActiveWord(w), LAMBDA currentWordIdx :
      IF currentWordIdx = Null THEN w
      ELSE LET sameDir == SelectSeq(Words, LAMBDA x : x.direction = w.grid.activeDirection)
               curPos == (CHOOSE i \in 1 .. Len(sameDir) :
                            sameDir[i].id = currentWordIdx) - 1
               nextPos == IF reverse
                          THEN (IF curPos > 0 THEN curPos - 1 ELSE Len(sameDir) - 1)
                          ELSE (IF curPos < Len(sameDir) - 1 THEN curPos + 1 ELSE 0)
           IN Let(sameDir[nextPos + 1], LAMBDA nextWord :
                IF Len(nextWord.cells) > 0 THEN activateWord(w, nextWord) ELSE w)))

\* a scan that gives up at a black cell
scanArrowStop(r, c, dr, dc) ==
  IF inGrid(r, c) /\ ~isBlack(r, c) THEN <<r, c>> ELSE <<>>

\* the first playable cell from (r, c) in steps of (dr, dc), <<>> when none
RECURSIVE scanArrow(_, _, _, _)
scanArrow(r, c, dr, dc) ==
  IF ~inGrid(r, c) THEN <<>>
  ELSE IF ~isBlack(r, c) THEN <<r, c>>
  ELSE scanArrow(r + dr, c + dc, dr, dc)

moveArrow(w0, dr, dc) ==
  Let(w0, LAMBDA w :
    Let(scanArrow(w.grid.activeRow + dr, w.grid.activeCol + dc, dr, dc), LAMBDA hit :
      IF hit = <<>> THEN w ELSE setActiveCell(w, hit[1], hit[2], "")))

handleCellFocus(w0, row, col) ==
  Let(w0, LAMBDA w :
    IF w.grid.activeRow # row \/ w.grid.activeCol # col
    THEN setActiveCell(w, row, col, "") ELSE w)

\* the first playable cell in row-major order
focusFirstCell(w) ==
  LET playable == {rc \in Coords(P) : ~isBlack(rc[1], rc[2])} IN
  IF playable = {} THEN w
  ELSE Let(CHOOSE rc \in playable : \A o \in playable :
             rc[1] * P.cols + rc[2] <= o[1] * P.cols + o[2],
           LAMBDA f : setActiveCell(w, f[1], f[2], "across"))

selectWord(w, wordIdx) ==
  IF wordIdx < 0 \/ wordIdx >= NWords THEN w
  ELSE activateWord(w, wordAt(wordIdx))

(* ----------------------------- timer.js -------------------------------- *)
\* intervals is the number of setInterval timers of this timer that have
\* not been cleared
createTimer == [elapsed |-> 0, running |-> FALSE, started |-> FALSE, intervals |-> 0]

\* intervalId = setInterval(tick, 1000)
start(w) ==
  IF w.timer.running THEN w
  ELSE [w EXCEPT !.timer.started = TRUE, !.timer.running = TRUE,
                 !.timer.intervals = @ + 1]

\* pause without clearInterval
pauseNoClear(w) == IF ~w.timer.running THEN w ELSE [w EXCEPT !.timer.running = FALSE]

\* clearInterval(intervalId) clears the interval that start set last
pause(w) ==
  IF ~w.timer.running THEN w
  ELSE [w EXCEPT !.timer.running = FALSE,
                 !.timer.intervals = IF @ > 0 THEN @ - 1 ELSE @]

stop(w) == pause(w)

\* elapsed = savedElapsed || 0; started = elapsed > 0
restore(w, savedElapsed) ==
  [w EXCEPT !.timer.elapsed = savedElapsed, !.timer.started = savedElapsed > 0]

\* the visibilitychange listener of a timer
onVisibilityChange(w, documentHidden) ==
  IF ~w.timer.started THEN w
  ELSE IF documentHidden THEN pause(w) ELSE start(w)

(* --------------------------- storage.js -------------------------------- *)
\* localStorage: progress is the record under crosswords_progress_<level>_<date>
\* for Date and progress2 the one for Date2 (<<>> when absent), and stats the record under crosswords_stats (the defaults
\* of loadStats when absent); bad holds the keys whose stored text is not
\* JSON; full tells that setItem throws (the quota is exceeded)
\* loadStats() of an empty store
defaultStats ==
  [totalCompleted |-> 0, totalTime |-> 0, bestTime |-> <<>>,
   streak |-> [current |-> 0, best |-> 0], history |-> <<>>, lastPlayed |-> <<>>]

emptyStore ==
  [progress |-> <<>>, progress2 |-> <<>>, stats |-> defaultStats, bad |-> {}, full |-> FALSE]

\* one key for the two dates
progressKeyShared(date) == "progress"

\* `${PREFIX}progress_${level}_${date}`: the name of the store's field
progressKey(date) == IF date = Date THEN "progress" ELSE "progress2"

\* localStorage.setItem(key, JSON.stringify(value)); the state object holds
\* strings, finite numbers, booleans, null, arrays and plain objects, which
\* JSON.parse gives back as they were
setItem(w, key, value) ==
  IF w.storage.full THEN [w EXCEPT !.thrown = TRUE]
  ELSE [w EXCEPT !.storage = [[@ EXCEPT ![key] = value] EXCEPT !.bad = @ \ {key}],
                 !.effects = Append(@, key)]

\* JSON.parse(localStorage.getItem(key)) throws a SyntaxError
unreadable(w, key) == key \in w.storage.bad

saveProgress(w0) == Let(w0, LAMBDA w : setItem(w, progressKey(w.date), <<w.state>>))

\* null (<<>>) or the parsed record, of a readable store
loadProgress(w) == w.storage[progressKey(w.date)]

\* updateStatsOnComplete with the reset of a broken streak left out: any
\* later day extends the streak
updateStatsKeepStreak(stats, level, date, elapsed, hintsUsed, day) ==
  LET best == IF stats.bestTime = <<>> \/ stats.bestTime[1] = 0
                 \/ elapsed < stats.bestTime[1]
              THEN <<elapsed>> ELSE stats.bestTime
      diffDays == IF stats.lastPlayed = <<>> THEN 0 ELSE day - stats.lastPlayed[1]
      current == IF stats.lastPlayed # <<>>
                 THEN (IF diffDays >= 1 THEN stats.streak.current + 1
                       ELSE stats.streak.current)
                 ELSE 1
      bestStreak == IF current > stats.streak.best THEN current ELSE stats.streak.best
      entry == [date |-> date, level |-> level, time |-> elapsed,
                hints |-> hintsUsed, noHints |-> (hintsUsed = 0)]
      history == <<entry>> \o stats.history
  IN [totalCompleted |-> stats.totalCompleted + 1,
      totalTime |-> stats.totalTime + elapsed,
      bestTime |-> best,
      streak |-> [current |-> current, best |-> bestStreak],
      history |-> IF Len(history) > 50 THEN SubSeq(history, 1, 50) ELSE history,
      lastPlayed |-> <<day>>]

\* bestTime is keyed by level; the one level of the model is "daily": <<>> or <<time>>
\* lastPlayed is null (<<>>) or <<day number>>; day is the calendar day of new Date()
updateStatsOnComplete(stats, level, date, elapsed, hintsUsed, day) ==
  LET best == IF stats.bestTime = <<>> \/ stats.bestTime[1] = 0
                 \/ elapsed < stats.bestTime[1]
              THEN <<elapsed>> ELSE stats.bestTime
      diffDays == IF stats.lastPlayed = <<>> THEN 0 ELSE day - stats.lastPlayed[1]
      current == IF stats.lastPlayed # <<>>
                 THEN (IF diffDays = 1 THEN stats.streak.current + 1
                       ELSE IF diffDays > 1 THEN 1
                       ELSE stats.streak.current)
                 ELSE 1
      bestStreak == IF current > stats.streak.best THEN current ELSE stats.streak.best
      entry == [date |-> date, level |-> level, time |-> elapsed,
                hints |-> hintsUsed, noHints |-> (hintsUsed = 0)]
      history == <<entry>> \o stats.history
  IN [totalCompleted |-> stats.totalCompleted + 1,
      totalTime |-> stats.totalTime + elapsed,
      bestTime |-> best,
      streak |-> [current |-> current, best |-> bestStreak],
      history |-> IF Len(history) > 50 THEN SubSeq(history, 1, 50) ELSE history,
      lastPlayed |-> <<day>>]

(* ----------------------------- game.js --------------------------------- *)
emptyMap == [k \in {} |-> ""]

\* the state object of createGame; startTime and completedAt record only
\* whether a timestamp is set; grid is the letter map keyed by <<row, col>>
newState ==
  [level |-> Level, date |-> Date, grid |-> emptyMap, revealed |-> {},
   correctWords |-> <<>>, startTime |-> FALSE, elapsed |-> 0,
   completed |-> FALSE, completedAt |-> FALSE, hintsUsed |-> 0]

\* scheduleSave without the clearTimeout
scheduleSaveNoClear(w) == [w EXCEPT !.saveTimer = @ + 1]

\* clearTimeout(saveTimer); saveTimer = setTimeout(..., 1000): the timeout
\* that saveTimer names is the last one set, the only one that can be pending
scheduleSave(w) == [w EXCEPT !.saveTimer = (IF @ > 0 THEN @ - 1 ELSE @) + 1]

(* ----------------- app.js: the callbacks of createGame ----------------- *)
\* timer.start()
onTimerStart(w) == start([w EXCEPT !.calls.onTimerStart = @ + 1])

\* timer.restore(elapsed); if (elapsed > 0) timer.start()
onTimerRestore(w0, elapsed) ==
  Let(restore([w0 EXCEPT !.calls.onTimerRestore = @ + 1], elapsed), LAMBDA w :
    IF elapsed > 0 THEN start(w) ELSE w)

\* timer.stop(), the confetti and the completion modal
onComplete(w) ==
  stop([w EXCEPT !.calls.onComplete = @ + 1, !.effects = Append(@, "onComplete")])

includes(seq, x) == \E i \in 1 .. Len(seq) : seq[i] = x

RECURSIVE lockCells(_, _)
lockCells(w, cells) ==
  IF cells = <<>> THEN w
  ELSE lockCells(lockCell(w, Head(cells).row, Head(cells).col), Tail(cells))

\* markWordCorrect that notifies but leaves the cells editable
markWordCorrectNoLock(w, wordIdx, animate) ==
  [w EXCEPT !.calls.onWordCorrect = IF animate THEN @ \cup {wordIdx} ELSE @]

markWordCorrect(w, wordIdx, animate) ==
  [lockCells(w, wordAt(wordIdx).cells) EXCEPT
     !.calls.onWordCorrect = IF animate THEN @ \cup {wordIdx} ELSE @]

\* updateStatsOnComplete(level, date, state.elapsed, state.hintsUsed):
\* loadStats, the update and saveStats
updateStats(w0) ==
  Let(w0, LAMBDA w :
    IF unreadable(w, "stats") THEN [w EXCEPT !.thrown = TRUE]
    ELSE setItem(w, "stats",
                 updateStatsOnComplete(w.storage.stats, Level, Date, w.state.elapsed,
                                       w.state.hintsUsed, today)))

\* the body of the if of checkCompletion without the saveProgress call
completeNoSave(w0) == Then(updateStats(w0), LAMBDA w : onComplete(w))

\* the body of the if of checkCompletion, on the state marked completed
complete(w0) ==
  Then(saveProgress(w0), LAMBDA w1 :
    Then(updateStats(w1), LAMBDA w2 : onComplete(w2)))

\* checkCompletion that compares with one word too few
checkCompletionEarly(w0) ==
  Let(w0, LAMBDA w :
    IF w.state.completed THEN w
    ELSE IF Len(w.state.correctWords) >= NWords - 1
    THEN complete([w EXCEPT !.state.completed = TRUE, !.state.completedAt = TRUE])
    ELSE w)

checkCompletion(w0) ==
  Let(w0, LAMBDA w :
    IF w.state.completed THEN w
    ELSE IF Len(w.state.correctWords) = NWords
    THEN complete([w EXCEPT !.state.completed = TRUE, !.state.completedAt = TRUE])
    ELSE w)

\* playerLetter === solutionLetter
sameLetter(playerLetter, solutionLetter) == playerLetter = solutionLetter

checkWord(w0, wordIdx) ==
  Let(w0, LAMBDA w :
    IF includes(w.state.correctWords, wordIdx) THEN w
    ELSE IF wordIdx < 0 \/ wordIdx >= NWords THEN w
    ELSE LET cells == wordAt(wordIdx).cells
             allFilled == \A i \in 1 .. Len(cells) :
                            getLetter(w, cells[i].row, cells[i].col) # ""
             allCorrect == \A i \in 1 .. Len(cells) :
                            sameLetter(getLetter(w, cells[i].row, cells[i].col),
                                       solutionAt(P, cells[i].row, cells[i].col))
         IN IF ~allFilled THEN w
            ELSE IF allCorrect
            THEN checkCompletion(
                   markWordCorrect(
                     [w EXCEPT !.state.correctWords = Append(@, wordIdx)],
                     wordIdx, TRUE))
            ELSE w)

\* checkWord(idx) unless idx is null
checkWordOrNull(w, idx) == IF idx # Null THEN checkWord(w, idx) ELSE w

\* if (cw.across != null) checkWord(cw.across); if (cw.down != null) checkWord(cw.down)
checkCellWords(w, row, col) ==
  Then(checkWordOrNull(w, cellToWords(row, col, "across")), LAMBDA w1 :
    checkWordOrNull(w1, cellToWords(row, col, "down")))

\* state.grid[key] = letter
putLetter(st, row, col, letter) ==
  [st EXCEPT !.grid = [k \in DOMAIN @ \cup {<<row, col>>} |->
                         IF k = <<row, col>> THEN letter ELSE @[k]]]

\* a deletion that leaves the entry of the letter map in place
deleteLetterKeep(st, row, col) == st

\* delete state.grid[key]
deleteLetter(st, row, col) ==
  [st EXCEPT !.grid = [k \in DOMAIN @ \ {<<row, col>>} |-> @[k]]]

\* if (!state.startTime) { state.startTime = Date.now(); onTimerStart() }
startSession(w0) ==
  Let(w0, LAMBDA w :
    IF ~w.state.startTime
    THEN onTimerStart([w EXCEPT !.state.startTime = TRUE])
    ELSE w)

onLetterInput(w, row, col, letter) ==
  Let([startSession(w) EXCEPT
         !.state = IF letter # "" THEN putLetter(@, row, col, letter)
                   ELSE deleteLetter(@, row, col)],
      LAMBDA w2 :
        Then(IF inGrid(row, col) THEN checkCellWords(w2, row, col) ELSE w2,
             LAMBDA w3 : scheduleSave(w3)))

\* one cell of a reveal: letter from the solution, revealed mark, hint count;
\* revealWord and revealAll count a cell once, revealLetter counts every call
\* revealCell that counts the hint without looking at state.revealed
revealCellAlways(w0, row, col, countOnce) ==
  Let(setLetter(w0, row, col, solutionAt(P, row, col)), LAMBDA w :
    [w EXCEPT !.state =
       [putLetter(@, row, col, solutionAt(P, row, col)) EXCEPT
          !.revealed = @ \cup {<<row, col>>},
          !.hintsUsed = @ + 1]])

revealCell(w0, row, col, countOnce) ==
  Let(setLetter(w0, row, col, solutionAt(P, row, col)), LAMBDA w :
    [w EXCEPT !.state =
       [putLetter(@, row, col, solutionAt(P, row, col)) EXCEPT
          !.revealed = @ \cup {<<row, col>>},
          !.hintsUsed = IF countOnce /\ <<row, col>> \in w.state.revealed
                        THEN @ ELSE @ + 1]])

revealLetter(w0) ==
  Let(w0, LAMBDA w :
    LET row == w.grid.activeRow
        col == w.grid.activeCol
    IN IF row < 0 \/ col < 0 THEN w
       ELSE IF ~inGrid(row, col) \/ isBlack(row, col) THEN w
       ELSE IF isReadOnly(w, row, col) THEN w
       ELSE IF solutionAt(P, row, col) \in {"", "#"} THEN w
       ELSE Then(checkCellWords(revealCell(w, row, col, FALSE), row, col),
                 LAMBDA w1 : scheduleSave(w1)))

\* the for loop of revealWord and the loop body of revealAll
RECURSIVE revealCells(_, _)
revealCells(w0, cells) ==
  Let(w0, LAMBDA w :
    IF cells = <<>> THEN w
    ELSE IF isBlack(Head(cells).row, Head(cells).col)
            \/ isReadOnly(w, Head(cells).row, Head(cells).col)
    THEN revealCells(w, Tail(cells))
    ELSE revealCells(revealCell(w, Head(cells).row, Head(cells).col, TRUE),
                     Tail(cells)))

revealWord(w0) ==
  Let(w0, LAMBDA w :
    Let(getActiveWord(w), LAMBDA wi :
      IF wi = Null THEN w
      ELSE IF includes(w.state.correctWords, wi) THEN w
      ELSE Then(checkWord(revealCells(w, wordAt(wi).cells), wi),
                LAMBDA w1 : scheduleSave(w1))))

\* every cell of the grid in row-major order
RECURSIVE rowMajor(_)
rowMajor(k) ==
  IF k >= P.rows * P.cols THEN <<>>
  ELSE <<[row |-> k \div P.cols, col |-> k % P.cols]>> \o rowMajor(k + 1)

\* for (let i = 0; i < grid.words.length; i++) if (!correctWords.includes(i)) checkWord(i)
RECURSIVE checkWordsFrom(_, _)
checkWordsFrom(w0, i) ==
  Let(w0, LAMBDA w :
    IF w.thrown \/ i >= NWords THEN w
    ELSE IF ~includes(w.state.correctWords, i)
    THEN checkWordsFrom(checkWord(w, i), i + 1)
    ELSE checkWordsFrom(w, i + 1))

revealAll(w) ==
  Then(checkWordsFrom(revealCells(w, rowMajor(0)), 0), LAMBDA w1 : scheduleSave(w1))

\* `${row}_${col}`: the text of the key that the letter map and the revealed
\* set hold for the cell written <<row, col>> in this module
keyOf(row, col) ==
  LET digits == <<"0", "1", "2", "3", "4", "5", "6", "7", "8", "9">>
  IN <<digits[row + 1], "_", digits[col + 1]>>

\* key.split('_').map(Number)
parseKey(key) ==
  LET digits == <<"0", "1", "2", "3", "4", "5", "6", "7", "8", "9">>
      parts == SelectSeq(key, LAMBDA t : t # "_")
      Number(t) == (CHOOSE i \in 1 .. Len(digits) : digits[i] = t) - 1
  IN <<Number(parts[1]), Number(parts[2])>>

\* for (const [key, letter] of Object.entries(state.grid)) grid.setLetter(r, c, letter)
restoreLetters(w0) ==
  Let(w0, LAMBDA w :
    [w EXCEPT !.grid.value = [rc \in Coords(P) |->
        LET keys == {k \in DOMAIN w.state.grid : parseKey(keyOf(k[1], k[2])) = rc}
        IN IF keys # {} /\ ~isBlack(rc[1], rc[2])
           THEN w.state.grid[CHOOSE k \in keys : TRUE] ELSE @[rc]]])

RECURSIVE restoreWords(_, _)
restoreWords(w, ids) ==
  IF ids = <<>> THEN w
  ELSE restoreWords(markWordCorrect(w, Head(ids), FALSE), Tail(ids))

\* loadSaved that does not bring back state.elapsed
loadSavedNoElapsed(w0) ==
  Let(w0, LAMBDA w :
    IF unreadable(w, progressKey(w.date)) THEN [w EXCEPT !.thrown = TRUE]
    ELSE Let(loadProgress(w), LAMBDA saved :
           IF saved = <<>> THEN w
           ELSE Let(restoreWords(restoreLetters(
                      [w EXCEPT !.state = [saved[1] EXCEPT !.elapsed = 0]]),
                      saved[1].correctWords),
                    LAMBDA w1 : onTimerRestore(w1, w1.state.elapsed))))

loadSaved(w0) ==
  Let(w0, LAMBDA w :
    IF unreadable(w, progressKey(w.date)) THEN [w EXCEPT !.thrown = TRUE]
    ELSE Let(loadProgress(w), LAMBDA saved :
           IF saved = <<>> THEN w
           ELSE Let(restoreWords(restoreLetters([w EXCEPT !.state = saved[1]]),
                                 saved[1].correctWords),
                    LAMBDA w1 : onTimerRestore(w1, w1.state.elapsed))))

(* --------------------- grid.js: keyboard and input --------------------- *)
\* setLetter(row, col, letter); callbacks.onLetterInput(row, col, letter),
\* which is game.onLetterInput(row, col, letter): a TypeError when game is null
enterLetter(w0, row, col, letter) ==
  Let(setLetter(w0, row, col, letter), LAMBDA w :
    IF ~w.game THEN [w EXCEPT !.thrown = TRUE]
    ELSE onLetterInput(w, row, col, letter))

\* the else branch of Backspace: on the cell that moveToPrevCell made active
clearActive(w0) ==
  Let(w0, LAMBDA w :
    IF w.grid.activeRow >= 0 /\ w.grid.activeCol >= 0
    THEN enterLetter(w, w.grid.activeRow, w.grid.activeCol, "")
    ELSE w)

handleKeyDown(w0, row, col, key, shiftKey) ==
  Let(w0, LAMBDA w :
    CASE key = "ArrowRight" -> moveArrow(w, 0, 1)
      [] key = "ArrowLeft" -> moveArrow(w, 0, -1)
      [] key = "ArrowDown" -> moveArrow(w, 1, 0)
      [] key = "ArrowUp" -> moveArrow(w, -1, 0)
      [] key = "Tab" -> moveToNextWord(w, shiftKey)
      [] key = "Enter" -> moveToNextWord(w, FALSE)
      [] key = " " -> toggleDirection(w)
      [] key = "Backspace" ->
           IF getLetter(w, row, col) # ""
           THEN enterLetter(w, row, col, "")
           ELSE clearActive(moveToPrevCell(w))
      [] key = "Delete" -> enterLetter(w, row, col, "")
      [] OTHER ->
           IF isLetterKey(key)
           THEN Then(enterLetter(w, row, col, normalizeLetter(key)),
                     LAMBDA w1 : moveToNextCell(w1))
           ELSE w)

\* the input event of a virtual keyboard; value is the text of the field
handleInput(w, row, col, value) ==
  IF value # ""
  THEN Then(enterLetter(w, row, col, normalizeLetter(value)),
            LAMBDA w1 : moveToNextCell(w1))
  ELSE w

(* ------------------------------ app.js --------------------------------- *)
newGrid ==
  [value |-> [rc \in Coords(P) |-> ""], readOnly |-> [rc \in Coords(P) |-> FALSE],
   activeRow |-> -1, activeCol |-> -1, activeDirection |-> "across"]

noCalls == [onComplete |-> 0, onTimerStart |-> 0, onTimerRestore |-> 0,
            onWordCorrect |-> {}]

\* createTimer, createGrid, createGame (which runs loadSaved) and
\* grid.focusFirstCell(); when loadSaved throws, the assignment to game and
\* the statements after it do not run and game keeps prevGame
initPuzzle(store, prevGame, date) ==
  Then(loadSaved([grid |-> newGrid, state |-> newState, saveTimer |-> 0,
                  storage |-> store, calls |-> noCalls, timer |-> createTimer,
                  game |-> prevGame, date |-> date, effects |-> <<>>,
                  thrown |-> FALSE]),
       LAMBDA w : focusFirstCell([w EXCEPT !.game = TRUE]))

(* ------------------------------ actions -------------------------------- *)
\* the handler's result becomes the next state
Apply(w0) ==
  \E w \in {w0} :
    /\ w.state.hintsUsed <= MaxHints
    /\ grid' = w.grid
    /\ state' = w.state
    /\ saveTimer' = w.saveTimer
    /\ storage' = w.storage
    /\ calls' = w.calls
    /\ timer' = w.timer
    /\ currentDate' = w.date
    /\ game' = w.game
    /\ effects' = w.effects
    /\ threw' = w.thrown

NavKeys == {"ArrowRight", "ArrowLeft", "ArrowDown", "ArrowUp", "Tab", "Enter", " "}
EditKeys == {"Backspace", "Delete"}

\* a keydown event on the focused input, which is the active cell
KeyDown(key, shiftKey) ==
  /\ ~hidden
  /\ grid.activeRow >= 0
  /\ Apply(handleKeyDown(World, grid.activeRow, grid.activeCol, key, shiftKey))
  /\ UNCHANGED <<pending, requested, pz, inst, zombies, today, hidden, oldTimers>>

\* an input event on the focused input; a read-only field takes no text
Input(value) ==
  /\ ~hidden
  /\ grid.activeRow >= 0
  /\ ~isReadOnly(World, grid.activeRow, grid.activeCol)
  /\ Apply(handleInput(World, grid.activeRow, grid.activeCol, value))
  /\ UNCHANGED <<pending, requested, pz, inst, zombies, today, hidden, oldTimers>>

\* the focus event of a cell's input
FocusCell(row, col) ==
  /\ ~hidden
  /\ ~isBlack(row, col)
  /\ Apply(handleCellFocus(World, row, col))
  /\ UNCHANGED <<pending, requested, pz, inst, zombies, today, hidden, oldTimers>>

\* a pointer click: the focus event, then the click listener
ClickCell(row, col) ==
  /\ ~hidden
  /\ ~isBlack(row, col)
  /\ \E w1 \in {handleCellFocus(World, row, col)} :
       Apply(IF w1.grid.activeRow = row /\ w1.grid.activeCol = col
             THEN toggleDirection(w1) ELSE w1)
  /\ UNCHANGED <<pending, requested, pz, inst, zombies, today, hidden, oldTimers>>

\* a click on a clue of the clues panel
ClueClick(wordIdx) ==
  /\ ~hidden
  /\ Apply(selectWord(World, wordIdx))
  /\ UNCHANGED <<pending, requested, pz, inst, zombies, today, hidden, oldTimers>>

\* game?.revealLetter()
RevealLetterBtn ==
  /\ ~hidden
  /\ Apply(IF game THEN revealLetter(World) ELSE World)
  /\ UNCHANGED <<pending, requested, pz, inst, zombies, today, hidden, oldTimers>>

\* game?.revealWord()
RevealWordBtn ==
  /\ ~hidden
  /\ Apply(IF game THEN revealWord(World) ELSE World)
  /\ UNCHANGED <<pending, requested, pz, inst, zombies, today, hidden, oldTimers>>

\* game?.revealAll(), the confirm() answered with OK
RevealAllBtn ==
  /\ ~hidden
  /\ Apply(IF game THEN revealAll(World) ELSE World)
  /\ UNCHANGED <<pending, requested, pz, inst, zombies, today, hidden, oldTimers>>

\* the debounce timeout of the live game fires; timeouts of equal delay fire
\* in the order they were set, so those of abandoned games fire first
SaveTimerFire ==
  /\ saveTimer > 0
  /\ zombies = <<>>
  /\ Apply(saveProgress([World EXCEPT !.saveTimer = @ - 1]))
  /\ UNCHANGED <<pending, requested, pz, inst, zombies, today, hidden, oldTimers>>

\* the debounce timeout of an abandoned game fires and saves its state object
ZombieSaveFire ==
  /\ zombies # <<>>
  /\ Apply(setItem(World, progressKey(Head(zombies).date), <<Head(zombies).state>>))
  /\ zombies' = Tail(zombies)
  /\ UNCHANGED <<pending, requested, pz, inst, today, hidden, oldTimers>>

\* the date picker (or the hash) leaves this date and comes back: initPuzzle
\* runs for this (level, date) again and a new timer, grid and game, loaded
\* from storage, replace the module-level ones; nothing clears the pending
\* timeout of the replaced game, which still holds that game's state object
InitPuzzleAgain ==
  /\ ~hidden
  /\ inst < MaxInst
  /\ saveTimer > 0 => Len(zombies) < MaxZombies
  /\ timer.started => Len(oldTimers) < MaxOldTimers
  /\ Apply(initPuzzle(storage, game, currentDate))
  /\ inst' = inst + 1
  /\ zombies' = IF saveTimer > 0
                THEN Append(zombies, [date |-> currentDate, state |-> state])
                ELSE zombies
  /\ oldTimers' = IF timer.started THEN Append(oldTimers, timer) ELSE oldTimers
  /\ requested' = currentDate
  /\ UNCHANGED <<pending, pz, today, hidden>>

\* the date picker (or the hash) goes to another date: initPuzzle(level, date)
\* replaces the module-level timer, grid and game; the timeout, the interval
\* and the visibilitychange listener of the replaced session stay
GoToDate(date) ==
  /\ ~hidden
  /\ date # currentDate
  /\ inst < MaxInst
  /\ saveTimer > 0 => Len(zombies) < MaxZombies
  /\ timer.started => Len(oldTimers) < MaxOldTimers
  /\ Apply(initPuzzle(storage, game, date))
  /\ inst' = inst + 1
  /\ zombies' = IF saveTimer > 0
                THEN Append(zombies, [date |-> currentDate, state |-> state])
                ELSE zombies
  /\ oldTimers' = IF timer.started THEN Append(oldTimers, timer) ELSE oldTimers
  /\ requested' = date
  /\ UNCHANGED <<pending, pz, today, hidden>>

\* the page is loaded anew (in the foreground or in a hidden tab): boot()
\* runs initPuzzle with game = null, no timeout and no interval survives
PageReload ==
  /\ inst < MaxInst
  /\ Apply(initPuzzle(storage, FALSE, currentDate))
  /\ inst' = inst + 1
  /\ zombies' = <<>>
  /\ oldTimers' = <<>>
  /\ pending' = <<>>
  /\ requested' = currentDate
  /\ UNCHANGED <<pz, today, hidden>>

\* initPuzzle calls that may await loadPuzzle at the same time
MaxPending == 2

\* the change listener of the date picker: initPuzzle(currentLevel, date)
\* runs up to its await of loadPuzzle(level, date) and returns to the event
\* loop; the dates offered are those of the index, whose files exist
RequestDate(date) ==
  /\ ~hidden
  /\ Len(pending) < MaxPending
  /\ pending' = Append(pending, date)
  /\ requested' = date
  /\ Apply(World)
  /\ UNCHANGED <<pz, inst, zombies, today, hidden, oldTimers>>

\* the fetch of the i-th awaiting initPuzzle resolves (responses arrive in any
\* order) and the rest of that call runs: currentDate, the hash, the date
\* picker, and a new timer, grid and game for its date; the hashchange listener
\* then finds the hash equal to currentDate and does nothing
LoadDone(i) ==
  /\ i \in 1 .. Len(pending)
  /\ inst < MaxInst
  /\ saveTimer > 0 => Len(zombies) < MaxZombies
  /\ timer.started => Len(oldTimers) < MaxOldTimers
  /\ Apply(initPuzzle(storage, game, pending[i]))
  /\ inst' = inst + 1
  /\ zombies' = IF saveTimer > 0
                THEN Append(zombies, [date |-> currentDate, state |-> state])
                ELSE zombies
  /\ oldTimers' = IF timer.started THEN Append(oldTimers, timer) ELSE oldTimers
  /\ pending' = SubSeq(pending, 1, i - 1) \o SubSeq(pending, i + 1, Len(pending))
  /\ UNCHANGED <<pz, today, hidden, requested>>

InitWith(puzzles) ==
  /\ pz \in puzzles
  /\ today = 1
  /\ inst = 1
  /\ zombies = <<>>
  /\ hidden = FALSE
  /\ oldTimers = <<>>
  /\ currentDate = Date
  /\ pending = <<>>
  /\ requested = Date
  /\ \E w \in {initPuzzle(emptyStore, FALSE, Date)} :
       /\ grid = w.grid
       /\ state = w.state
       /\ saveTimer = w.saveTimer
       /\ storage = w.storage
       /\ calls = w.calls
       /\ timer = w.timer
       /\ game = w.game
       /\ effects = w.effects
       /\ threw = w.thrown

\* what the user does on the page: keys, pointer, clue list, hint buttons
Play ==
  \/ \E key \in Keys \cup NavKeys \cup EditKeys : KeyDown(key, FALSE)
  \/ KeyDown("Tab", TRUE)
  \/ \E value \in Keys : Input(value)
  \/ \E rc \in Coords(P) : FocusCell(rc[1], rc[2])
  \/ \E rc \in Coords(P) : ClickCell(rc[1], rc[2])
  \/ \E i \in 0 .. NWords - 1 : ClueClick(i)
  \/ RevealLetterBtn
  \/ RevealWordBtn
  \/ RevealAllBtn

\* one game instance on the crossing puzzle, within one burst of input: the
\* debounce timeout stays pending (it writes storage, which a live game
\* never reads back)
Init == InitWith({1})
Next == Play
Spec == Init /\ [][Next]_vars

\* sessions of the one-word puzzle: play, the debounced save, a second
\* initPuzzle for the date on view, and a reload of the page
InitSession == InitWith({4})
NextSession == Play \/ SaveTimerFire \/ ZombieSaveFire \/ InitPuzzleAgain \/ PageReload
SpecSession == InitSession /\ [][NextSession]_vars

\* one game instance on a one-word puzzle, one of them with a diacritic in
\* its solution, with the debounced save
InitOneWord == InitWith({2, 3})
NextOneWord == Play \/ SaveTimerFire
SpecOneWord == InitOneWord /\ [][NextOneWord]_vars

\* one game instance on the puzzle with a playable cell outside every word
InitIsland == InitWith({5})
NextIsland == Play
SpecIsland == InitIsland /\ [][NextIsland]_vars

\* the isolated-cell puzzle: letters, deletions, hints, saves and page reloads
\* single-letter hints taken while the hint count is below this
MaxLetterHints == 1

InitMirror == InitWith({5})
NextMirror ==
  \/ \E key \in Keys \cup EditKeys : KeyDown(key, FALSE)
  \/ \E value \in Keys : Input(value)
  \/ \E rc \in Coords(P) : FocusCell(rc[1], rc[2])
  \/ (state.hintsUsed < MaxLetterHints /\ RevealLetterBtn)
  \/ RevealWordBtn
  \/ RevealAllBtn
  \/ SaveTimerFire
  \/ PageReload
SpecMirror == InitMirror /\ [][NextMirror]_vars

\* the interval of a running timer fires: tick() and, through onTick,
\* game.updateElapsed(elapsed)
Tick ==
  /\ timer.intervals > 0
  /\ timer.elapsed < MaxElapsed
  /\ Apply([World EXCEPT !.timer.elapsed = @ + 1, !.state.elapsed = timer.elapsed + 1])
  /\ UNCHANGED <<pending, requested, pz, inst, zombies, today, hidden, oldTimers>>

\* the interval of the timer of a replaced session fires: tick() and, through
\* its onTick, updateElapsed of the module-level game
ZombieTick(i) ==
  /\ i \in 1 .. Len(oldTimers)
  /\ oldTimers[i].intervals > 0
  /\ oldTimers[i].elapsed < MaxElapsed
  /\ Apply([World EXCEPT !.state.elapsed = oldTimers[i].elapsed + 1])
  /\ oldTimers' = [oldTimers EXCEPT ![i].elapsed = @ + 1]
  /\ UNCHANGED <<pending, requested, pz, inst, zombies, today, hidden>>

\* a visibilitychange event: every timer created since the page was loaded
\* has a listener
Visibility(documentHidden) ==
  /\ hidden # documentHidden
  /\ hidden' = documentHidden
  /\ Apply(onVisibilityChange(World, documentHidden))
  /\ oldTimers' = [i \in 1 .. Len(oldTimers) |->
                     onVisibilityChange([World EXCEPT !.timer = oldTimers[i]],
                                        documentHidden).timer]
  /\ UNCHANGED <<pending, requested, pz, inst, zombies, today>>

\* the tab goes to the background
Hide == Visibility(TRUE)
\* the tab comes back to the foreground
Show == Visibility(FALSE)

\* sessions of the one-cell puzzle with the clock, the tab's visibility and
\* page loads
InitVisible == InitWith({4})
NextVisible == Play \/ Tick \/ SaveTimerFire \/ Hide \/ Show \/ PageReload
SpecVisible == InitVisible /\ [][NextVisible]_vars

\* the one-cell puzzle on two dates: the date picker goes from one to the
\* other while the timeouts of the replaced sessions live on
InitDates == InitWith({4})
NextDates ==
  \/ \E key \in Keys : KeyDown(key, FALSE)
  \/ SaveTimerFire
  \/ ZombieSaveFire
  \/ \E date \in {Date, Date2} : GoToDate(date)
SpecDates == InitDates /\ [][NextDates]_vars

\* the one-cell puzzle on two dates with loads in flight: the date picker
\* asks for a date while earlier fetches have not yet resolved
InitLoads == InitWith({4})
NextLoads ==
  \/ \E key \in Keys : KeyDown(key, FALSE)
  \/ SaveTimerFire
  \/ ZombieSaveFire
  \/ \E date \in {Date, Date2} : RequestDate(date)
  \/ \E i \in 1 .. MaxPending : LoadDone(i)
SpecLoads == InitLoads /\ [][NextLoads]_vars

\* the same with the clocks: the intervals of the page's timer and of the
\* timers of replaced sessions
InitTimers == InitWith({4})
NextTimers ==
  \/ \E key \in Keys : KeyDown(key, FALSE)
  \/ Tick
  \/ \E date \in {Date, Date2} : GoToDate(date)
  \/ \E i \in 1 .. MaxOldTimers : ZombieTick(i)
SpecTimers == InitTimers /\ [][NextTimers]_vars

\* one game instance on the one-word puzzle while its clock counts
InitClock == InitWith({2})
NextClock == Play \/ Tick
SpecClock == InitClock /\ [][NextClock]_vars

\* the click on the statistics button: loadStats() and the modal
StatsBtn ==
  /\ ~hidden
  /\ Apply(IF unreadable(World, "stats") THEN [World EXCEPT !.thrown = TRUE] ELSE World)
  /\ UNCHANGED <<pending, requested, pz, inst, zombies, today, hidden, oldTimers>>

\* something other than this page leaves text that is not JSON under a key
Corrupt(key) ==
  /\ key \notin storage.bad
  /\ storage' = [storage EXCEPT !.bad = @ \cup {key}]
  /\ UNCHANGED <<pending, requested, pz, grid, state, saveTimer, calls, inst, zombies, today,
                 timer, hidden, oldTimers, currentDate, game, effects, threw>>

\* the origin's storage quota is used up: setItem throws from now on
QuotaExceeded ==
  /\ ~storage.full
  /\ storage' = [storage EXCEPT !.full = TRUE]
  /\ UNCHANGED <<pending, requested, pz, grid, state, saveTimer, calls, inst, zombies, today,
                 timer, hidden, oldTimers, currentDate, game, effects, threw>>

\* sessions of the one-cell puzzle on a store that can hold unreadable text
\* and can run out of space
InitFaults == InitWith({4})
NextFaults ==
  \/ Play
  \/ SaveTimerFire
  \/ PageReload
  \/ StatsBtn
  \/ \E key \in {"progress", "stats"} : Corrupt(key)
  \/ QuotaExceeded
SpecFaults == InitFaults /\ [][NextFaults]_vars

\* moving about the grid without entering a letter: arrows, Tab, Enter,
\* space, focus, click and the clue list
Navigate ==
  \/ \E key \in NavKeys : KeyDown(key, FALSE)
  \/ KeyDown("Tab", TRUE)
  \/ \E rc \in Coords(P) : FocusCell(rc[1], rc[2])
  \/ \E rc \in Coords(P) : ClickCell(rc[1], rc[2])
  \/ \E i \in 0 .. NWords - 1 : ClueClick(i)

\* createGrid on every generated puzzle definition, then navigation
InitWords == InitWith(GenIds)
NextWords == Navigate
SpecWords == InitWords /\ [][NextWords]_vars

\* the cursor on every generated puzzle definition and on the puzzle with a
\* black cell between playable ones
InitNav == InitWith(GenIds \cup {5})
NextNav == Navigate
SpecNav == InitNav /\ [][NextNav]_vars

\* checkCompletion of a game of another date of the level: its statistics update
CompleteOther(elapsed, hintsUsed) ==
  /\ storage.stats.totalCompleted < MaxCompleted
  /\ storage' = [storage EXCEPT !.stats =
                   updateStatsOnComplete(@, Level, Date, elapsed, hintsUsed, today)]
  /\ UNCHANGED <<pending, requested, pz, grid, state, saveTimer, calls, inst, zombies, today,
                 timer, hidden, oldTimers, currentDate, game, effects, threw>>

\* midnight (UTC) passes
NextDay ==
  /\ today < MaxDay
  /\ today' = today + 1
  /\ UNCHANGED <<pending, requested, pz, grid, state, saveTimer, storage, calls, inst, zombies,
                 timer, hidden, oldTimers, currentDate, game, effects, threw>>

\* the Statistics record over the days: completions and date changes
InitStats == InitWith({4})
NextStats == (\E elapsed \in 0 .. 1, hintsUsed \in 0 .. 1 : CompleteOther(elapsed, hintsUsed))
             \/ NextDay
SpecStats == InitStats /\ [][NextStats]_vars

(* ------------------------------ claims --------------------------------- *)
validated(st, i) == includes(st.correctWords, i)
WordIds == 0 .. NWords - 1
cellsOf(i) == {<<wordAt(i).cells[k].row, wordAt(i).cells[k].col>> :
                 k \in 1 .. Len(wordAt(i).cells)}
\* every cell of word i shows its solution letter
fullyCorrect(g, i) ==
  \A rc \in cellsOf(i) : g.value[rc] # "" /\ g.value[rc] = solutionAt(P, rc[1], rc[2])
\* the letter-map entry of a coordinate, "" when absent
entry(st, rc) == IF rc \in DOMAIN st.grid THEN st.grid[rc] ELSE ""

\* C1: on one game instance onComplete fires in exactly the step in which
\* the number of validated words first reaches the number of words, at most
\* once, and has not fired in any state with fewer validated words
C1_CompletionOnce ==
  [][/\ calls'.onComplete = calls.onComplete +
          (IF Len(state.correctWords) < NWords /\ Len(state'.correctWords) = NWords
           THEN 1 ELSE 0)
     /\ calls'.onComplete <= 1
     /\ calls'.onComplete = 1 <=> Len(state'.correctWords) = NWords
     /\ state'.completed <=> calls'.onComplete = 1]_vars

\* both words validated and the one notification delivered
C1_Witness ==
  /\ NWords = 2
  /\ Len(state.correctWords) = NWords
  /\ state.completed
  /\ calls.onComplete = 1

\* C2: no step changes the displayed letter or the letter-map entry of a
\* locked cell of a validated word (the reveal operations skip locked cells,
\* so a step that changes one is a keyboard or input event)
C2_LockedCellsImmutable ==
  [][\A i \in WordIds : \A rc \in cellsOf(i) :
       (validated(state, i) /\ grid.readOnly[rc])
         => /\ grid'.value[rc] = grid.value[rc]
            /\ entry(state', rc) = entry(state, rc)]_vars

\* C3: a validated word stays validated and every cell of a validated word
\* is, and stays, locked
C3_ValidationMonotonic ==
  [][/\ \A i \in WordIds : validated(state, i) => validated(state', i)
     /\ \A i \in WordIds : validated(state', i) =>
          \A rc \in cellsOf(i) : grid'.readOnly[rc]
     /\ \A rc \in Coords(P) : grid.readOnly[rc] => grid'.readOnly[rc]]_vars

\* a validated, locked word after a later keystroke on one of its cells: the
\* cell no longer shows its solution letter
C3_Witness ==
  \E i \in WordIds :
    /\ validated(state, i)
    /\ \A rc \in cellsOf(i) : grid.readOnly[rc]
    /\ \E rc \in cellsOf(i) : grid.value[rc] # solutionAt(P, rc[1], rc[2])

\* C4: in every reachable state one revealAll call ends with every word
\* validated and the puzzle completed
C4_RevealAllCompletes ==
  \E w \in {revealAll(World)} :
    /\ \A i \in WordIds : validated(w.state, i)
    /\ w.state.completed

\* C5: a word joins the validated set only in a step after which all its
\* cells show their solution letters, and a step that changes the letter of
\* a cell, or marks it revealed, validates every word through that cell that
\* is then fully and correctly filled
C5_ValidatedIffCorrect ==
  [][\A i \in WordIds :
       /\ (validated(state', i) /\ ~validated(state, i)) => fullyCorrect(grid', i)
       /\ (/\ \E rc \in cellsOf(i) : \/ grid'.value[rc] # grid.value[rc]
                                     \/ rc \in state'.revealed \ state.revealed
           /\ fullyCorrect(grid', i))
            => validated(state', i)]_vars

\* C6: a fully filled word whose letters equal the solution letters up to
\* case and diacritics is validated
C6_NormalizedComparison ==
  \A i \in WordIds :
    (\A rc \in cellsOf(i) :
       /\ grid.value[rc] # ""
       /\ normalizeLetter(grid.value[rc]) = normalizeLetter(solutionAt(P, rc[1], rc[2])))
      => validated(state, i)

\* C7: the hint counter equals the number of coordinates marked revealed
C7_HintsEqualRevealed == state.hintsUsed = Cardinality(state.revealed)

\* the active word when it is not validated, else Null
revealable == IF getActiveWord(World) # Null /\ ~validated(state, getActiveWord(World))
              THEN getActiveWord(World) ELSE Null
\* the hint count that revealWord adds in the current state
revealWordDelta == revealWord(World).state.hintsUsed - state.hintsUsed

\* C8 as stated: revealWord on a not-validated active word of n cells, k of
\* them marked revealed, adds n - k to the hint counter
C8_RevealWordAddsNMinusK ==
  revealable # Null =>
    revealWordDelta = Cardinality(cellsOf(revealable))
                      - Cardinality(cellsOf(revealable) \cap state.revealed)

\* C8 amended: revealWord on a not-validated active word adds to the hint
\* counter the number of its cells that are neither locked nor marked revealed
C8_RevealWordAddsUnlockedUnrevealed ==
  revealable # Null =>
    revealWordDelta = Cardinality({rc \in cellsOf(revealable) :
                                     ~grid.readOnly[rc] /\ rc \notin state.revealed})

\* a not-validated active word with a locked cell that is not marked revealed
\* and a free cell, while another cell is revealed: revealWord counts the free cell
C8_Witness ==
  /\ revealable # Null
  /\ \E rc \in cellsOf(revealable) : grid.readOnly[rc] /\ rc \notin state.revealed
  /\ \E rc \in cellsOf(revealable) : ~grid.readOnly[rc] /\ rc \notin state.revealed
  /\ state.revealed # {}
  /\ revealWordDelta = 1

\* C9: over the sessions of one (level, date) the statistics are updated once
C9_StatsUpdatedOnce ==
  /\ storage.stats.totalCompleted <= 1
  /\ Len(storage.stats.history) <= 1

\* C10: the streak of a completion: 1 without last-played date; p + 1 on the
\* day after it; 1 more than a day after it; p on the same day; the best
\* streak is the larger of its old value and the new current streak
C10_StreakRecompute ==
  [][storage'.stats.totalCompleted = storage.stats.totalCompleted + 1 =>
       LET old == storage.stats
           new == storage'.stats
           p == old.streak.current
       IN /\ old.lastPlayed = <<>> => new.streak.current = 1
          /\ (old.lastPlayed # <<>> /\ today = old.lastPlayed[1] + 1)
               => new.streak.current = p + 1
          /\ (old.lastPlayed # <<>> /\ today > old.lastPlayed[1] + 1)
               => new.streak.current = 1
          /\ (old.lastPlayed # <<>> /\ today = old.lastPlayed[1])
               => new.streak.current = p
          /\ new.streak.best = IF new.streak.current > old.streak.best
                               THEN new.streak.current ELSE old.streak.best
          /\ new.lastPlayed = <<today>>]_vars

\* two days in a row, a gap, then a completion: the streak fell back to 1
\* and the best streak kept 2
C10_Witness ==
  /\ storage.stats.totalCompleted = 3
  /\ storage.stats.streak = [current |-> 1, best |-> 2]

\* the playable cells of the puzzle on view
PlayableCells == {rc \in Coords(P) : ~isBlack(rc[1], rc[2])}
\* the directions in which a cell belongs to a word
dirsOf(rc) == {d \in {"across", "down"} : cellToWords(rc[1], rc[2], d) # Null}
\* an active cell that belongs to a word has the active direction among its
\* directions
dirSupported(g) ==
  (g.activeRow >= 0 /\ dirsOf(<<g.activeRow, g.activeCol>>) # {})
    => g.activeDirection \in dirsOf(<<g.activeRow, g.activeCol>>)
\* the results of the grid's navigation operations in the current state
navResults ==
  {moveToNextCell(World), moveToPrevCell(World), toggleDirection(World),
   moveToNextWord(World, FALSE), moveToNextWord(World, TRUE), focusFirstCell(World)}
  \cup {setActiveCell(World, rc[1], rc[2], d) :
          rc \in PlayableCells, d \in {"", "across", "down"}}
  \cup {moveArrow(World, dd[1], dd[2]) : dd \in {<<0, 1>>, <<0, -1>>, <<1, 0>>, <<-1, 0>>}}
  \cup {selectWord(World, i) : i \in WordIds}

\* C19: in every state reached by navigation, and after one more navigation
\* operation of any kind, an active cell that belongs to a word in some
\* direction has an active direction in which it belongs to a word
C19_ActiveDirectionSupported ==
  /\ dirSupported(grid)
  /\ \A w \in navResults : dirSupported(w.grid)

\* navigation has left the first cell and stands on a cell that has a Down
\* word and no Across word, the direction switched to down
C19_Witness ==
  /\ pz \in GenIds
  /\ grid.activeRow = 1
  /\ dirsOf(<<grid.activeRow, grid.activeCol>>) = {"down"}
  /\ grid.activeDirection = "down"
  /\ \E rc \in PlayableCells : dirsOf(rc) = {"across"}

\* the words of one direction through a cell
wordsThrough(rc, d) == {i \in WordIds : wordAt(i).direction = d /\ rc \in cellsOf(i)}

stepOf(d) == IF d = "across" THEN <<0, 1>> ELSE <<1, 0>>
\* word i is a run: at least one cell, each cell one step after the one before
isRun(i) ==
  LET cells == wordAt(i).cells
      st == stepOf(wordAt(i).direction)
  IN /\ Len(cells) >= 1
     /\ \A k \in 1 .. Len(cells) : isPlayable(P, cells[k].row, cells[k].col)
     /\ \A k \in 1 .. Len(cells) - 1 :
          /\ cells[k + 1].row = cells[k].row + st[1]
          /\ cells[k + 1].col = cells[k].col + st[2]
\* the first cell of word i carries the word's clue number
startsAtLabel(i) ==
  puzzleAt(P, wordAt(i).cells[1].row, wordAt(i).cells[1].col) = wordAt(i).number
\* no playable cell follows the last cell of word i
closedAtEnd(i) ==
  LET cells == wordAt(i).cells
      st == stepOf(wordAt(i).direction)
  IN ~isPlayable(P, cells[Len(cells)].row + st[1], cells[Len(cells)].col + st[2])
\* no playable cell precedes the first cell of word i
closedAtStart(i) ==
  LET cells == wordAt(i).cells
      st == stepOf(wordAt(i).direction)
  IN ~isPlayable(P, cells[1].row - st[1], cells[1].col - st[2])

\* C17 as stated: every word is a non-empty contiguous run of playable cells
\* of one row or column that starts at the cell labelled with its clue number
\* and is bounded at both ends by the grid edge or a black cell
C17_WordsAreMaximalRuns ==
  \A i \in WordIds : isRun(i) /\ startsAtLabel(i) /\ closedAtEnd(i) /\ closedAtStart(i)

\* C17 amended: every word is a non-empty contiguous run of playable cells of
\* one row or column that starts at the cell labelled with its clue number
\* and runs up to the grid edge or a black cell
C17_WordsRunFromLabelToEnd ==
  \A i \in WordIds : isRun(i) /\ startsAtLabel(i) /\ closedAtEnd(i)

\* an Across word whose labelled first cell follows a playable cell, and a
\* Down word of two cells
C17_Witness ==
  /\ pz \in GenIds
  /\ \E i \in WordIds : wordAt(i).direction = "across" /\ ~closedAtStart(i)
  /\ \E i \in WordIds : wordAt(i).direction = "down" /\ Len(wordAt(i).cells) >= 2

\* the clue numbers of a clue list that label a cell, in the order of the list
accepted(clues) == SelectSeq(clues, LAMBDA num : hasPos(P, num))
\* <<number, direction>> of the words, in the order of their ids
wordKeys == [i \in 1 .. NWords |-> <<Words[i].number, Words[i].direction>>]
tagged(nums, d) == [i \in 1 .. Len(nums) |-> <<nums[i], d>>]

\* C18: the words are the clues whose number labels a cell, Across clues first
\* and Down clues after them, each list in its input order, and word i has id i
C18_DenseIdsInClueOrder ==
  /\ wordKeys = tagged(accepted(P.across), "across") \o tagged(accepted(P.down), "down")
  /\ \A i \in WordIds : wordAt(i).id = i

\* an Across list 2, 3, 1 whose clue 3 labels no cell: the words are 2-Across,
\* 1-Across and then the Down words
C18_Witness ==
  /\ pz \in GenIds
  /\ Len(P.across) > Len(accepted(P.across))
  /\ NWords >= 3
  /\ <<Words[1].number, Words[2].number>> = <<2, 1>>
  /\ Words[2].direction = "across"
  /\ Words[NWords].direction = "down"

\* C20: onTimerStart fires at most once on a game, and only in a step that
\* leaves a letter in the letter map (an input of the empty string on an
\* untouched puzzle does not fire it)
C20_TimerStartsOnFirstLetter ==
  [][/\ calls'.onTimerStart <= 1
     /\ calls'.onTimerStart > calls.onTimerStart => DOMAIN state'.grid # {}]_vars

\* the store with every unreadable key absent
asAbsent(store) ==
  [progress |-> IF "progress" \in store.bad THEN <<>> ELSE store.progress,
   progress2 |-> IF "progress2" \in store.bad THEN <<>> ELSE store.progress2,
   stats |-> IF "stats" \in store.bad THEN defaultStats ELSE store.stats,
   bad |-> {}, full |-> store.full]
\* two runs of a handler end alike: the same exception status, solving state,
\* grid, game and stored statistics
sameOutcome(a, b) ==
  /\ a.thrown = b.thrown
  /\ a.state = b.state
  /\ a.grid = b.grid
  /\ a.game = b.game
  /\ a.storage.stats = b.storage.stats

\* C11: whatever the store holds, loading the progress (a page load) and
\* loading the statistics (the update at a completion) raise no exception and
\* end as they do when the unreadable keys are absent
C11_UnreadableLoadsAsAbsent ==
  /\ Let(initPuzzle(storage, FALSE, currentDate), LAMBDA a :
       ~a.thrown /\ sameOutcome(a, initPuzzle(asAbsent(storage), FALSE, currentDate)))
  /\ Let(updateStats(World), LAMBDA a :
       ~a.thrown /\ sameOutcome(a, updateStats([World EXCEPT !.storage = asAbsent(@)])))

\* C12: on a readable store, a handler that ends with an exception leaves
\* the solving state as it was, and the step that sets completed also updates
\* the statistics and runs the completion callback
C12_AllOrNothing ==
  [][storage.bad = {} =>
       /\ threw' => state' = state
       /\ (state'.completed /\ ~state.completed /\ inst' = inst)
            => /\ calls'.onComplete = calls.onComplete + 1
               /\ storage'.stats.totalCompleted = storage.stats.totalCompleted + 1]_vars

\* C13: the step that sets completed leaves the whole state object of that
\* moment (completed, validated words, letter map, revealed set, hint count)
\* in the stored progress, having written it before the statistics and before
\* the completion callback, with or without a pending debounced save
C13_CompletionSavedAtOnce ==
  [][(state'.completed /\ ~state.completed) =>
       /\ storage'.progress = <<state'>>
       /\ storage'.progress[1].completed
       /\ Len(storage'.progress[1].correctWords) = NWords
       /\ effects' = <<"progress", "stats", "onComplete">>]_vars

\* the state right after the completing input of a session that revealed a
\* letter: the stored record is the completed state, the debounced save of
\* that input is pending
C13_Witness ==
  /\ state.completed
  /\ effects = <<"progress", "stats", "onComplete">>
  /\ storage.progress = <<state>>
  /\ state.hintsUsed = 1
  /\ saveTimer = 1

\* key is among the localStorage keys the handler wrote
wrote(e, key) == \E i \in 1 .. Len(e) : e[i] = key
\* the step is the debounce timeout's write of the state as it is
debouncedWrite ==
  /\ saveTimer = 1
  /\ saveTimer' = 0
  /\ state' = state
  /\ storage'.progress = <<state>>
  /\ effects' = <<"progress">>

\* C14 as stated: never more than one pending save; every change of the
\* solving state leaves one pending; the progress record is written only by
\* the timeout, which stores the state as of the last change
C14_OneWritePerBurst ==
  [][/\ saveTimer' <= 1
     /\ state' # state => saveTimer' = 1
     /\ wrote(effects', "progress") => debouncedWrite]_vars

\* C14 amended: never more than one pending save; every change of the
\* solving state leaves one pending; the progress record is written by the
\* timeout, which stores the state as of the last change, and besides that
\* only by the change that completes the puzzle, which stores the completed
\* state at once
C14_OneDebouncedWritePerBurst ==
  [][/\ saveTimer' <= 1
     /\ state' # state => saveTimer' = 1
     /\ wrote(effects', "progress") =>
          \/ debouncedWrite
          \/ (state'.completed /\ ~state.completed /\ storage'.progress = <<state'>>)]_vars

\* two letters entered, the word not validated, then the one write of the
\* timeout: the stored record holds both letters and no save is pending
C14_Witness ==
  /\ effects = <<"progress">>
  /\ saveTimer = 0
  /\ storage.progress = <<state>>
  /\ Cardinality(DOMAIN state.grid) = 2
  /\ ~state.completed

activeCell(g) == <<g.activeRow, g.activeCol>>
\* a playable cell in no word
isolated(rc) == dirsOf(rc) = {}

\* C25: setActiveCell without a direction argument on a playable cell that
\* is in no Across word and no Down word leaves the active direction as it was
C25_IsolatedCellKeepsDirection ==
  \A rc \in PlayableCells :
    isolated(rc) =>
      setActiveCell(World, rc[1], rc[2], "").grid.activeDirection = grid.activeDirection

\* the steps k for which the k-th cell from the active cell along dd is a
\* playable cell of the grid
playableAhead(dd) ==
  {k \in 1 .. P.rows + P.cols :
     /\ inGrid(grid.activeRow + k * dd[1], grid.activeCol + k * dd[2])
     /\ ~isBlack(grid.activeRow + k * dd[1], grid.activeCol + k * dd[2])}
nearestAhead(dd) == CHOOSE k \in playableAhead(dd) : \A j \in playableAhead(dd) : k <= j
ArrowSteps == {<<0, 1>>, <<0, -1>>, <<1, 0>>, <<-1, 0>>}

onLastCell ==
  /\ getActiveWord(World) # Null
  /\ findIndex(wordAt(getActiveWord(World)).cells, grid.activeRow, grid.activeCol)
       = Len(wordAt(getActiveWord(World)).cells) - 1
\* the active cell is the first cell of the active word
onFirstCell ==
  /\ getActiveWord(World) # Null
  /\ findIndex(wordAt(getActiveWord(World)).cells, grid.activeRow, grid.activeCol) = 0

\* C28: moveToNextCell on the last cell of the active word, moveToPrevCell on
\* its first cell, and toggleDirection on a cell without a word in the other
\* direction change neither the active cell nor the active direction
C28_BoundaryNavigationNoOp ==
  /\ onLastCell => moveToNextCell(World).grid = grid
  /\ onFirstCell => moveToPrevCell(World).grid = grid
  /\ (grid.activeRow >= 0
      /\ cellToWords(grid.activeRow, grid.activeCol,
                     otherDirection(grid.activeDirection)) = Null)
       => toggleDirection(World).grid = grid

\* the cursor on the last cell of a two-cell Across word of a generated
\* puzzle, on a cell that has no Down word
C28_Witness ==
  /\ pz \in GenIds
  /\ onLastCell
  /\ ~onFirstCell
  /\ grid.activeDirection = "across"
  /\ cellToWords(grid.activeRow, grid.activeCol, "down") = Null

\* the ids of the words of direction d, in id order
sameDirIds(d) == SelectSeq([i \in 1 .. NWords |-> i - 1], LAMBDA i : wordAt(i).direction = d)
\* the position of word id a in the sequence ids
posIn(ids, a) == CHOOSE i \in 1 .. Len(ids) : ids[i] = a
\* the word after (before, when reverse) word a among the words of its
\* direction, circularly
cyclicNext(a, reverse) ==
  LET ids == sameDirIds(wordAt(a).direction)
      i == posIn(ids, a)
  IN IF reverse THEN ids[IF i = 1 THEN Len(ids) ELSE i - 1]
     ELSE ids[IF i = Len(ids) THEN 1 ELSE i + 1]
\* the current grid with a letter shown in exactly the cells of F
shown(F) ==
  [World EXCEPT !.grid.value = [rc \in DOMAIN @ |-> IF rc \in F THEN "A" ELSE ""]]
\* the first cell of word t that shows no letter, its first cell when all do
landing(w, t) ==
  LET cells == wordAt(t).cells
      empties == {k \in 1 .. Len(cells) : w.grid.value[<<cells[k].row, cells[k].col>>] = ""}
  IN IF empties = {} THEN <<cells[1].row, cells[1].col>>
     ELSE LET k == CHOOSE i \in empties : \A j \in empties : i <= j
          IN <<cells[k].row, cells[k].col>>
\* n forward moves
RECURSIVE forward(_, _)
forward(w, n) == IF n = 0 THEN w ELSE forward(moveToNextWord(w, FALSE), n - 1)
\* no cell lies in two words of one direction
noSharedCells ==
  \A i, j \in WordIds :
    (i # j /\ wordAt(i).direction = wordAt(j).direction) => cellsOf(i) \cap cellsOf(j) = {}

\* the forward move f and the reverse move b from w land on the first empty
\* cell (else the first cell) of the circularly next and previous word of the
\* active direction and keep the direction
landsOnNext(w, f, b) ==
  LET a == getActiveWord(w)
  IN /\ f.grid.activeDirection = w.grid.activeDirection
     /\ b.grid.activeDirection = w.grid.activeDirection
     /\ activeCell(f.grid) = landing(w, cyclicNext(a, FALSE))
     /\ activeCell(b.grid) = landing(w, cyclicNext(a, TRUE))
\* the active word after the forward move f and the reverse move b from w is
\* the next and the previous word; as many forward moves as the direction has
\* words come back to the active word, and a reverse move undoes a forward move
rotates(w, f, b) ==
  LET a == getActiveWord(w)
      m == Len(sameDirIds(wordAt(a).direction))
  IN /\ getActiveWord(f) = cyclicNext(a, FALSE)
     /\ getActiveWord(b) = cyclicNext(a, TRUE)
     /\ getActiveWord(forward(f, m - 1)) = a
     /\ getActiveWord(moveToNextWord(f, TRUE)) = a
\* Law(w, f, b) for the grid with the cells of F filled, f and b its forward
\* and reverse move
onFilling(F, Law(_, _, _)) ==
  Let(shown(F), LAMBDA w :
    Let(moveToNextWord(w, FALSE), LAMBDA f :
      Let(moveToNextWord(w, TRUE), LAMBDA b : Law(w, f, b))))

\* the sets of filled cells tried: at most one cell filled, or at most one
\* cell empty
Fillings ==
  {F \in SUBSET PlayableCells :
     Cardinality(F) <= 1 \/ Cardinality(PlayableCells \ F) <= 1}

recordedTimes(stats) == {stats.history[i].time : i \in 1 .. Len(stats.history)}

\* C22: the stored best time of the level is the least elapsed time of the
\* completions recorded so far (a completion with elapsed 0 included)
C22_BestTimeIsMinimum ==
  storage.stats.history # <<>> =>
    /\ storage.stats.bestTime # <<>>
    /\ storage.stats.bestTime[1] \in recordedTimes(storage.stats)
    /\ \A t \in recordedTimes(storage.stats) : storage.stats.bestTime[1] <= t

\* C23: on a completed puzzle revealLetter, revealWord and revealAll leave the
\* solving state (letter map, revealed set, validated words, hint counter) as
\* it is
C23_RevealsFrozenOnceCompleted ==
  state.completed =>
    /\ revealLetter(World).state = state
    /\ revealWord(World).state = state
    /\ revealAll(World).state = state

\* C30: a visibility change leaves a timer that was never started as it is;
\* going hidden cancels the tick of the timer, and while the page stays
\* hidden nothing sets it again, so elapsed does not grow until the page is
\* visible; coming back sets the tick of a started timer again; a timer never
\* has two tick intervals
C30_TickFollowsVisibility ==
  [][/\ (hidden' # hidden /\ ~timer.started) => timer' = timer
     /\ (~hidden /\ hidden') => (timer'.intervals = 0 /\ ~timer'.running)
     /\ (hidden /\ hidden' /\ inst' = inst /\ timer.intervals = 0) => timer' = timer
     /\ (hidden /\ ~hidden' /\ timer.started) =>
          (timer'.running /\ timer'.intervals = 1 /\ timer'.elapsed = timer.elapsed)
     /\ timer'.intervals <= 1]_vars

\* the page is hidden and the timer, which has counted, is paused
C30_Witness ==
  /\ hidden
  /\ inst = 1
  /\ timer.started
  /\ ~timer.running
  /\ timer.intervals = 0
  /\ timer.elapsed > 0
  /\ ~state.completed

\* C24: the completion stops the timer, and from then on neither the elapsed
\* time of the solving state nor the timer's grows, whatever the page's
\* visibility does and however often the puzzle is loaded again
C24_ElapsedFrozenOnceCompleted ==
  [][/\ (~state.completed /\ state'.completed /\ inst' = inst) => ~timer'.running
     /\ (state.completed /\ state'.completed) =>
          /\ state'.elapsed <= state.elapsed
          /\ timer'.elapsed <= timer.elapsed]_vars

\* C21: a tick of the timer of a replaced session changes neither the solving
\* state nor the timer of the session on the page
C21_ReplacedSessionIsInert ==
  [][(oldTimers' # oldTimers /\ Len(oldTimers') = Len(oldTimers)) =>
        (state' = state /\ timer' = timer)]_vars

\* C29: the pending save of a replaced session fires after the navigation and
\* writes that session's state under the key of its own date; the record of
\* another date, the statistics and the solving state on the page stay as
\* they are; in every step a key's value changes only by a write to that key
C29_PendingSaveWritesOwnKey ==
  [][/\ \A k \in {"progress", "progress2", "stats"} :
          storage'[k] # storage[k] => wrote(effects', k)
     /\ (zombies # <<>> /\ zombies' = Tail(zombies)) =>
          /\ Head(zombies).date = Date =>
               (storage'.progress = <<Head(zombies).state>>
                /\ storage'.progress2 = storage.progress2)
          /\ Head(zombies).date = Date2 =>
               (storage'.progress2 = <<Head(zombies).state>>
                /\ storage'.progress = storage.progress)
          /\ storage'.stats = storage.stats
          /\ state' = state]_vars

\* on the second date, the last step was the write of the first date's
\* record by the replaced session's timeout, and the second date has no record
C29_Witness ==
  /\ currentDate = Date2
  /\ inst = 2
  /\ effects = <<"progress">>
  /\ storage.progress # <<>>
  /\ storage.progress[1] # state
  /\ storage.progress2 = <<>>

\* every cell of word i shows, and has in the letter map, its solution letter
holdsSolution(g, st, i) ==
  \A rc \in cellsOf(i) :
    /\ g.value[rc] = solutionAt(P, rc[1], rc[2])
    /\ entry(st, rc) = solutionAt(P, rc[1], rc[2])

\* C31: in every step after which the puzzle is completed for the first time
\* every cell of every word holds its solution letter, and after every step
\* each cell of a validated word holds its solution letter
C31_ValidatedWordsHoldSolution ==
  [][/\ (~state.completed /\ state'.completed) =>
          \A i \in WordIds : holdsSolution(grid', state', i)
     /\ \A i \in WordIds : validated(state', i) => holdsSolution(grid', state', i)]_vars

letterInputStep ==
  /\ inst' = inst
  /\ state'.grid # state.grid
  /\ state'.revealed = state.revealed
  /\ state'.hintsUsed = state.hintsUsed

\* C33: after every letter input that leaves the puzzle uncompleted, in a fresh
\* session or a restored one, the timer is running: its interval is set, so
\* elapsed increases while the page is visible
C33_TimerRunsAfterLetterInput ==
  [][(letterInputStep /\ ~state'.completed) =>
       (timer'.running /\ timer'.intervals > 0)]_vars

\* C34: whenever no load is in flight, whatever the order in which the loads
\* resolved, the current date (and with it the timer, grid and game that the
\* same initPuzzle call made) is the date requested last
C34_LastRequestWins == pending = <<>> => currentDate = requested

====
